---------------------------- MODULE Spec2Model ----------------------------
(***************************************************************************)
(* strong_ptr / decay_ptr (src/strong_ptr.h).                              *)
(*                                                                         *)
(* A strong_ptr owns a pointee through m_data (a shared_ptr<T>) and holds  *)
(* one claim on a second control block, m_shared (shared_ptr<void>), whose *)
(* deleter (shared_deleter) captured a copy of m_data and of m_wake.       *)
(* get_shared() hands out aliasing shared_ptr<T> observers that count on   *)
(* m_shared's control block.  A decay_ptr takes over m_data and m_wake and *)
(* keeps only a weak_ptr (m_decaying) on that control block.               *)
(*                                                                         *)
(* One owner thread performs every operation on the handles (they are      *)
(* single-writer) and is the thread that calls the wait family.  Observers *)
(* are copied and released by other threads; the release that takes the    *)
(* count of m_shared to zero runs shared_deleter::operator() in that       *)
(* thread, statement by statement, interleaved with the owner.  When the   *)
(* owner itself releases the last claim, shared_deleter runs to completion *)
(* inside the owner's operation.                                           *)
(***************************************************************************)
EXTENDS Integers, FiniteSets

\* ---------------------------------------------------------------- bounds
NumStrong == 2
NumDecay == 2
NumPointees == 2
MaxWake == 2
MaxObs == 2

\* nullptr / empty shared_ptr / empty weak_ptr
NULL == 0

Strong == 1..NumStrong
Decay == 1..NumDecay
\* A pointee and the m_shared control block created with it share one id.
Pointee == 1..NumPointees
Wake == 1..MaxWake

VARIABLES
    strong,        \* strong_ptr objects: [alive, m_data, m_wake, m_shared]
    decay,         \* decay_ptr objects:  [alive, m_data, m_decaying, m_wake]
    obs,           \* obs[k]: live shared_ptr<T> observers counting on m_shared block k
    tokData,       \* tokData[k]: shared_deleter::m_data of block k still holds its claim
    tokWake,       \* tokWake[k]: shared_deleter::m_wake of block k
    fin,           \* fin[k]: position of shared_deleter::operator() for block k
    deleterRuns,   \* deleterRuns[p]: how often the pointee's deleter has been invoked
    mutex,         \* mutex[w]: holder of wake_type::m_mut of channel w
    nextP,         \* next pointee / control block id to hand out
    nextWake,      \* next wake_type id to hand out
    pc,            \* position of the owner thread
    waitOn,        \* decay_ptr the owner is waiting on
    waitKind,      \* "plain" wait(), "pred" wait(Predicate), "timed" wait_for /
                   \* wait_until, "timedpred" wait_for / wait_until with predicate
    waitStatus,    \* what the condition variable reported to a timed wait
    calledDrained, \* decayed() of that handle when the wait was called
    aborted        \* an assert() has failed

vars == <<strong, decay, obs, tokData, tokWake, fin, deleterRuns, mutex, nextP,
          nextWake, pc, waitOn, waitKind, waitStatus, calledDrained, aborted>>

handleVars == <<strong, decay, obs, tokData, tokWake, fin, deleterRuns, nextP,
                nextWake>>
waitVars == <<pc, waitOn, waitKind, waitStatus, calledDrained>>

\* ------------------------------------------------------------ the objects
\* A destroyed (or not yet constructed) object.
DeadStrong == [alive |-> FALSE, m_data |-> NULL, m_wake |-> NULL, m_shared |-> NULL]
DeadDecay == [alive |-> FALSE, m_data |-> NULL, m_decaying |-> NULL, m_wake |-> NULL]
\* A moved-from strong_ptr: the three members were moved out of.
MovedStrong == [alive |-> TRUE, m_data |-> NULL, m_wake |-> NULL, m_shared |-> NULL]
\* decay_ptr() = default, and a moved-from or reset decay_ptr.
EmptyDecay == [alive |-> TRUE, m_data |-> NULL, m_decaying |-> NULL, m_wake |-> NULL]

\* ------------------------------------------------- shared_ptr bookkeeping
\* use_count() of the m_shared control block k: the strong_ptr holding it
\* plus the observers.
UseCountIn(st, ob, k) == Cardinality({s \in Strong : st[s].m_shared = k}) + ob[k]
UseCount(k) == UseCountIn(strong, obs, k)

\* use_count() of the m_data control block of pointee p: the handle holding
\* it directly plus the copy captured in shared_deleter.
DataCountIn(st, dc, td, p) ==
    Cardinality({s \in Strong : st[s].m_data = p})
    + Cardinality({d \in Decay : dc[d].m_data = p})
    + (IF td[p] THEN 1 ELSE 0)
DataCount(p) == DataCountIn(strong, decay, tokData, p)

\* Mutant: every release of a claim on the pointee invokes the deleter.
DeleterFiresOnEveryRelease(left) == TRUE

\* shared_ptr releases one claim: the deleter is invoked when, and only
\* when, the count left is zero.
DeleterFires(left) == left = 0

\* Deleter invocations caused by releasing the claims from..to+1 one by one.
RECURSIVE RunsAdded(_, _)
RunsAdded(from, to) ==
    IF to >= from THEN 0
    ELSE (IF DeleterFires(from - 1) THEN 1 ELSE 0) + RunsAdded(from - 1, to)

\* Mutant: shared_deleter holds no claim on the pointee.
CapturesNothing == FALSE

\* shared_deleter{m_data, m_wake}: the copy of m_data the new control block holds.
CapturesData == TRUE

\* Mutant: shared_deleter captures no wake channel.
CapturesNullWake(w) == NULL

\* shared_deleter{m_data, m_wake}: the copy of m_wake the new control block
\* holds, made when the handle's m_wake is w.
CapturesWake(w) == w

\* Mutant: an empty m_decaying does not read as decayed.
decayedNeedsToken(d) == decay[d].m_decaying # NULL /\ UseCountIn(strong, obs, decay[d].m_decaying) = 0

\* weak_ptr::expired() on m_decaying.
Expired(k) == k = NULL \/ UseCount(k) = 0
decayed(d) == Expired(decay[d].m_decaying)

\* ------------------------------------------------------------------ Init
Init ==
    /\ strong = [s \in Strong |-> DeadStrong]
    /\ decay = [d \in Decay |-> DeadDecay]
    /\ obs = [k \in Pointee |-> 0]
    /\ tokData = [k \in Pointee |-> FALSE]
    /\ tokWake = [k \in Pointee |-> NULL]
    /\ fin = [k \in Pointee |-> "idle"]
    /\ deleterRuns = [p \in Pointee |-> 0]
    /\ mutex = [w \in Wake |-> "free"]
    /\ nextP = 1
    /\ nextWake = 1
    /\ pc = "idle"
    /\ waitOn = NULL
    /\ waitKind = "none"
    /\ waitStatus = "none"
    /\ calledDrained = FALSE
    /\ aborted = FALSE

\* The owner thread is between operations.
OwnerIdle == ~aborted /\ pc = "idle"

\* The owner has assigned the handles (st2, dc2) and created what td2 and
\* tw2 describe.  Every m_shared block whose last claim that released has
\* its shared_deleter run here, in the owner: m_data.reset(), the dummy
\* lock (nobody else holds that mutex: the owner is the only waiter),
\* notify_all (nobody is parked).  Every m_data block left without a claim
\* has its deleter invoked.
OwnerStep(st2, dc2, td2, tw2) ==
    LET fired(k) == UseCount(k) > 0 /\ UseCountIn(st2, obs, k) = 0
        td3 == [k \in Pointee |-> IF fired(k) THEN FALSE ELSE td2[k]]
    IN  /\ strong' = st2
        /\ decay' = dc2
        /\ tokData' = td3
        /\ tokWake' = tw2
        /\ fin' = [k \in Pointee |-> IF fired(k) THEN "done" ELSE fin[k]]
        /\ deleterRuns' = [p \in Pointee |->
               deleterRuns[p] + RunsAdded(DataCount(p), DataCountIn(st2, dc2, td3, p))]
        /\ UNCHANGED <<obs, mutex, waitVars, aborted>>

\* ------------------------------------------------------------ strong_ptr
\* strong_ptr(U*), strong_ptr(U*, Deleter), strong_ptr(unique_ptr&&):
\* m_data adopts the pointee, m_wake is a fresh channel, m_shared's default
\* member initializer makes the control block with shared_deleter{m_data, m_wake}.
StrongCtorPtr(s) ==
    /\ OwnerIdle
    /\ ~strong[s].alive
    /\ nextP <= NumPointees
    /\ nextWake <= MaxWake
    /\ nextP' = nextP + 1
    /\ nextWake' = nextWake + 1
    /\ OwnerStep([strong EXCEPT ![s] = [alive |-> TRUE, m_data |-> nextP,
                                        m_wake |-> nextWake, m_shared |-> nextP]],
                 decay,
                 [tokData EXCEPT ![nextP] = CapturesData],
                 [tokWake EXCEPT ![nextP] = CapturesWake(nextWake)])

\* strong_ptr(), strong_ptr(nullptr_t): m_shared{nullptr}, a fresh m_wake.
StrongCtorNull(s) ==
    /\ OwnerIdle
    /\ ~strong[s].alive
    /\ nextWake <= MaxWake
    /\ nextWake' = nextWake + 1
    /\ UNCHANGED nextP
    /\ OwnerStep([strong EXCEPT ![s] = [alive |-> TRUE, m_data |-> NULL,
                                        m_wake |-> nextWake, m_shared |-> NULL]],
                 decay, tokData, tokWake)

\* strong_ptr(strong_ptr&& rhs): the three members are moved.
StrongMoveCtor(s, r) ==
    /\ OwnerIdle
    /\ s # r
    /\ ~strong[s].alive
    /\ strong[r].alive
    /\ UNCHANGED <<nextP, nextWake>>
    /\ OwnerStep([strong EXCEPT ![s] = strong[r], ![r] = MovedStrong],
                 decay, tokData, tokWake)

\* operator=(strong_ptr&& rhs): the three members are move-assigned; what
\* this handle held before is released.
StrongMoveAssign(s, r) ==
    /\ OwnerIdle
    /\ s # r
    /\ strong[s].alive
    /\ strong[r].alive
    /\ UNCHANGED <<nextP, nextWake>>
    /\ OwnerStep([strong EXCEPT ![s] = strong[r], ![r] = MovedStrong],
                 decay, tokData, tokWake)

\* Mutant: reset(U*) without m_wake = std::make_shared<wake_type>().
StrongResetPtrKeepsWake(s) ==
    /\ OwnerIdle
    /\ strong[s].alive
    /\ nextP <= NumPointees
    /\ nextP' = nextP + 1
    /\ UNCHANGED nextWake
    /\ OwnerStep([strong EXCEPT ![s] = [alive |-> TRUE, m_data |-> nextP,
                                        m_wake |-> strong[s].m_wake, m_shared |-> nextP]],
                 decay,
                 [tokData EXCEPT ![nextP] = CapturesData],
                 [tokWake EXCEPT ![nextP] = CapturesWake(strong[s].m_wake)])

\* reset(U*), reset(U*, Deleter), operator=(U*), operator=(unique_ptr&&):
\* m_data adopts the new pointee, m_wake is a fresh channel, m_shared is
\* reset to a new control block with shared_deleter{m_data, m_wake}.
StrongResetPtr(s) ==
    /\ OwnerIdle
    /\ strong[s].alive
    /\ nextP <= NumPointees
    /\ nextWake <= MaxWake
    /\ nextP' = nextP + 1
    /\ nextWake' = nextWake + 1
    /\ OwnerStep([strong EXCEPT ![s] = [alive |-> TRUE, m_data |-> nextP,
                                        m_wake |-> nextWake, m_shared |-> nextP]],
                 decay,
                 [tokData EXCEPT ![nextP] = CapturesData],
                 [tokWake EXCEPT ![nextP] = CapturesWake(nextWake)])

\* reset(), reset(nullptr_t): m_data.reset(); m_shared.reset(); fresh m_wake.
StrongReset(s) ==
    /\ OwnerIdle
    /\ strong[s].alive
    /\ nextWake <= MaxWake
    /\ nextWake' = nextWake + 1
    /\ UNCHANGED nextP
    /\ OwnerStep([strong EXCEPT ![s] = [alive |-> TRUE, m_data |-> NULL,
                                        m_wake |-> nextWake, m_shared |-> NULL]],
                 decay, tokData, tokWake)

\* ~strong_ptr(): m_shared, m_wake and m_data are destroyed.
StrongDtor(s) ==
    /\ OwnerIdle
    /\ strong[s].alive
    /\ UNCHANGED <<nextP, nextWake>>
    /\ OwnerStep([strong EXCEPT ![s] = DeadStrong], decay, tokData, tokWake)

\* get_shared(): shared_ptr<T>(m_shared, m_data.get()).  With an empty
\* m_shared the result is an empty observer, which counts on nothing.
GetShared(s) ==
    /\ OwnerIdle
    /\ strong[s].alive
    /\ LET k == strong[s].m_shared
       IN  IF k = NULL
           THEN UNCHANGED obs
           ELSE /\ obs[k] < MaxObs
                /\ obs' = [obs EXCEPT ![k] = @ + 1]
    /\ UNCHANGED <<strong, decay, tokData, tokWake, fin, deleterRuns, mutex, nextP,
                   nextWake, waitVars, aborted>>

\* -------------------------------------------------------------- observers
\* Copy of an outstanding observer (shared_ptr<T> copy constructor).
ObserverCopy(k) ==
    /\ ~aborted
    /\ obs[k] >= 1
    /\ obs[k] < MaxObs
    /\ obs' = [obs EXCEPT ![k] = @ + 1]
    /\ UNCHANGED <<strong, decay, tokData, tokWake, fin, deleterRuns, mutex, nextP,
                   nextWake, waitVars, aborted>>

\* Mutant: every release of an observer runs shared_deleter.
ObserverReleaseAlwaysFires(k) ==
    /\ ~aborted
    /\ obs[k] >= 1
    /\ obs' = [obs EXCEPT ![k] = @ - 1]
    /\ fin' = [fin EXCEPT ![k] = "zero"]
    /\ UNCHANGED <<strong, decay, tokData, tokWake, deleterRuns, mutex, nextP,
                   nextWake, waitVars, aborted>>

\* Release of an observer by some thread (shared_ptr<T> destructor or
\* reset()).  The release that leaves use_count() at zero goes on to run
\* shared_deleter::operator() in that thread.
ObserverRelease(k) ==
    /\ ~aborted
    /\ obs[k] >= 1
    /\ obs' = [obs EXCEPT ![k] = @ - 1]
    /\ fin' = [fin EXCEPT ![k] = IF UseCountIn(strong, obs', k) = 0 THEN "zero" ELSE @]
    /\ UNCHANGED <<strong, decay, tokData, tokWake, deleterRuns, mutex, nextP,
                   nextWake, waitVars, aborted>>

\* --------------------------------------- shared_deleter::operator()(T*)
\* assert(m_wake); m_data.reset();
FinReleaseData(k) ==
    /\ ~aborted
    /\ fin[k] = "zero"
    /\ IF tokWake[k] = NULL
       THEN /\ aborted' = TRUE
            /\ UNCHANGED <<tokData, fin, deleterRuns>>
       ELSE /\ tokData' = [tokData EXCEPT ![k] = FALSE]
            /\ fin' = [fin EXCEPT ![k] = "released"]
            /\ deleterRuns' = [deleterRuns EXCEPT ![k] =
                   @ + RunsAdded(DataCount(k), DataCountIn(strong, decay, tokData', k))]
            /\ UNCHANGED aborted
    /\ UNCHANGED <<strong, decay, obs, tokWake, mutex, nextP, nextWake, waitVars>>

\* A mutex can be locked when nobody holds it.
CanLock(w) == mutex[w] = "free"

\* Mutant: shared_deleter without its dummy lock.
FinLockSkipped(k) ==
    /\ ~aborted
    /\ fin[k] = "released"
    /\ fin' = [fin EXCEPT ![k] = "unlocked"]
    /\ UNCHANGED <<strong, decay, obs, tokData, tokWake, deleterRuns, mutex, nextP,
                   nextWake, waitVars, aborted>>

\* { std::lock_guard<std::mutex> lock(m_wake->m_mut);
FinLock(k) ==
    /\ ~aborted
    /\ fin[k] = "released"
    /\ CanLock(tokWake[k])
    /\ mutex' = [mutex EXCEPT ![tokWake[k]] = "fin"]
    /\ fin' = [fin EXCEPT ![k] = "locked"]
    /\ UNCHANGED <<strong, decay, obs, tokData, tokWake, deleterRuns, nextP, nextWake,
                   waitVars, aborted>>

\* }  the lock_guard goes out of scope
FinUnlock(k) ==
    /\ ~aborted
    /\ fin[k] = "locked"
    /\ mutex' = [mutex EXCEPT ![tokWake[k]] = "free"]
    /\ fin' = [fin EXCEPT ![k] = "unlocked"]
    /\ UNCHANGED <<strong, decay, obs, tokData, tokWake, deleterRuns, nextP, nextWake,
                   waitVars, aborted>>

\* The owner is parked on the condition variable of channel w.
ParkedOn(w) == pc = "w_parked" /\ decay[waitOn].m_wake = w

\* m_wake->m_cond.notify_all();
FinNotify(k) ==
    /\ ~aborted
    /\ fin[k] = "unlocked"
    /\ fin' = [fin EXCEPT ![k] = "done"]
    /\ pc' = IF ParkedOn(tokWake[k]) THEN "w_woken" ELSE pc
    /\ UNCHANGED <<strong, decay, obs, tokData, tokWake, deleterRuns, mutex, nextP,
                   nextWake, waitOn, waitKind, waitStatus, calledDrained, aborted>>

\* ------------------------------------------------------------- decay_ptr
\* Mutant: the conversion without ptr.m_shared.reset().
ConvertedSourceKeepsShared(sp) == [MovedStrong EXCEPT !.m_shared = sp.m_shared]

\* Mutant: the conversion copies m_data instead of moving it.
ConvertedSourceKeepsData(sp) == [MovedStrong EXCEPT !.m_data = sp.m_data]

\* What a strong_ptr is left with by a conversion: m_data and m_wake moved
\* out of (or reset), m_shared reset.
ConvertedSource(sp) == MovedStrong

\* Mutant: the conversion does not take m_data over.
ConvertedTargetDropsData(sp) ==
    [alive |-> TRUE, m_data |-> NULL, m_decaying |-> sp.m_shared, m_wake |-> sp.m_wake]

\* Mutant: the conversion does not take m_wake over.
ConvertedTargetDropsWake(sp) ==
    [alive |-> TRUE, m_data |-> sp.m_data, m_decaying |-> sp.m_shared, m_wake |-> NULL]

\* What the decay_ptr receives: m_data, a weak_ptr on m_shared, m_wake.
ConvertedTarget(sp) ==
    [alive |-> TRUE, m_data |-> sp.m_data, m_decaying |-> sp.m_shared, m_wake |-> sp.m_wake]

\* decay_ptr() = default, decay_ptr(nullptr_t).
DecayCtorDefault(d) ==
    /\ OwnerIdle
    /\ ~decay[d].alive
    /\ UNCHANGED <<nextP, nextWake>>
    /\ OwnerStep(strong, [decay EXCEPT ![d] = EmptyDecay], tokData, tokWake)

\* decay_ptr(decay_ptr&& rhs): the three members are moved.
DecayMoveCtor(d, r) ==
    /\ OwnerIdle
    /\ d # r
    /\ ~decay[d].alive
    /\ decay[r].alive
    /\ UNCHANGED <<nextP, nextWake>>
    /\ OwnerStep(strong, [decay EXCEPT ![d] = decay[r], ![r] = EmptyDecay],
                 tokData, tokWake)

\* decay_ptr(strong_ptr<U>&& ptr): members taken from ptr, assert(m_wake),
\* ptr.m_shared.reset().
DecayCtorStrong(d, s) ==
    /\ OwnerIdle
    /\ ~decay[d].alive
    /\ strong[s].alive
    /\ \/ /\ strong[s].m_wake = NULL
          /\ aborted' = TRUE
          /\ UNCHANGED <<handleVars, mutex, waitVars>>
       \/ /\ strong[s].m_wake # NULL
                /\ UNCHANGED <<nextP, nextWake>>
          /\ OwnerStep([strong EXCEPT ![s] = ConvertedSource(strong[s])],
                       [decay EXCEPT ![d] = ConvertedTarget(strong[s])],
                       tokData, tokWake)

\* operator=(decay_ptr&& rhs): the three members are move-assigned.
DecayMoveAssign(d, r) ==
    /\ OwnerIdle
    /\ d # r
    /\ decay[d].alive
    /\ decay[r].alive
    /\ UNCHANGED <<nextP, nextWake>>
    /\ OwnerStep(strong, [decay EXCEPT ![d] = decay[r], ![r] = EmptyDecay],
                 tokData, tokWake)

\* operator=(strong_ptr<U>&& rhs): m_data and m_wake move-assigned,
\* m_decaying = rhs.m_shared, rhs.m_shared.reset(), rhs.m_wake.reset().
DecayAssignStrong(d, s) ==
    /\ OwnerIdle
    /\ decay[d].alive
    /\ strong[s].alive
    /\ UNCHANGED <<nextP, nextWake>>
    /\ OwnerStep([strong EXCEPT ![s] = ConvertedSource(strong[s])],
                 [decay EXCEPT ![d] = ConvertedTarget(strong[s])],
                 tokData, tokWake)

\* reset(): m_decaying.reset(); m_data.reset(); m_wake.reset().
DecayReset(d) ==
    /\ OwnerIdle
    /\ decay[d].alive
    /\ UNCHANGED <<nextP, nextWake>>
    /\ OwnerStep(strong, [decay EXCEPT ![d] = EmptyDecay], tokData, tokWake)

\* ~decay_ptr().
DecayDtor(d) ==
    /\ OwnerIdle
    /\ decay[d].alive
    /\ UNCHANGED <<nextP, nextWake>>
    /\ OwnerStep(strong, [decay EXCEPT ![d] = DeadDecay], tokData, tokWake)

\* ------------------------------------------------------ wait, wait(pred)
\* Entry of wait() and of wait(Predicate): assert(m_wake).
WaitEnter(d, kind) ==
    /\ OwnerIdle
    /\ decay[d].alive
    /\ \/ /\ decay[d].m_wake = NULL
          /\ aborted' = TRUE
          /\ UNCHANGED <<handleVars, mutex, waitVars>>
       \/ /\ decay[d].m_wake # NULL
          /\ pc' = "w_lock"
          /\ waitOn' = d
          /\ waitKind' = kind
          /\ waitStatus' = "none"
          /\ calledDrained' = decayed(d)
          /\ UNCHANGED <<handleVars, mutex, aborted>>

\* void wait()
Wait(d) == WaitEnter(d, "plain")

\* void wait(Predicate stop_waiting), called with [&]{ return decayed(); }
WaitPred(d) == WaitEnter(d, "pred")

\* cv_status wait_for(rel_time), cv_status wait_until(timeout_time)
WaitFor(d) == WaitEnter(d, "timed")

\* bool wait_for(rel_time, stop_waiting), bool wait_until(timeout_time,
\* stop_waiting), called with [&]{ return decayed(); }
WaitForPred(d) == WaitEnter(d, "timedpred")

\* std::unique_lock<std::mutex> lock(m_wake->m_mut);
WaitLock ==
    /\ ~aborted
    /\ pc = "w_lock"
    /\ CanLock(decay[waitOn].m_wake)
    /\ mutex' = [mutex EXCEPT ![decay[waitOn].m_wake] = "owner"]
    /\ pc' = IF waitKind \in {"plain", "timed"} THEN "w_wait" ELSE "w_test"
    /\ UNCHANGED <<handleVars, waitOn, waitKind, waitStatus, calledDrained, aborted>>

\* condition_variable::wait(lock, pred): while (!pred()) wait(lock);
\* a true predicate returns, and the unique_lock unlocks.
WaitTest ==
    /\ ~aborted
    /\ pc = "w_test"
    /\ waitKind = "pred"
    /\ IF decayed(waitOn)
       THEN /\ mutex' = [mutex EXCEPT ![decay[waitOn].m_wake] = "free"]
            /\ pc' = "idle"
            /\ waitOn' = NULL
            /\ waitKind' = "none"
            /\ calledDrained' = FALSE
       ELSE /\ pc' = "w_wait"
            /\ UNCHANGED <<mutex, waitOn, waitKind, calledDrained>>
    /\ UNCHANGED <<handleVars, waitStatus, aborted>>

\* condition_variable::wait_until(lock, t, pred):
\*   while (!pred()) if (wait_until(lock, t) == cv_status::timeout) return pred();
\*   return true;
WaitTestTimed ==
    /\ ~aborted
    /\ pc = "w_test"
    /\ waitKind = "timedpred"
    /\ IF decayed(waitOn)
       THEN pc' = "w_ret" /\ waitStatus' = "true"
       ELSE IF waitStatus = "timeout"
            THEN pc' = "w_ret" /\ waitStatus' = "false"
            ELSE pc' = "w_wait" /\ UNCHANGED waitStatus
    /\ UNCHANGED <<handleVars, mutex, waitOn, waitKind, calledDrained, aborted>>

\* Mutant: the caller blocks without unlocking the mutex.
WaitParkKeepsLock ==
    /\ ~aborted
    /\ pc = "w_wait"
    /\ pc' = "w_parked"
    /\ UNCHANGED <<handleVars, mutex, waitOn, waitKind, waitStatus, calledDrained, aborted>>

\* condition_variable::wait(lock): atomically unlocks and parks.
WaitPark ==
    /\ ~aborted
    /\ pc = "w_wait"
    /\ mutex' = [mutex EXCEPT ![decay[waitOn].m_wake] = "free"]
    /\ pc' = "w_parked"
    /\ UNCHANGED <<handleVars, waitOn, waitKind, waitStatus, calledDrained, aborted>>

\* condition_variable::wait may wake without a notification.
SpuriousWake ==
    /\ ~aborted
    /\ pc = "w_parked"
    /\ pc' = "w_woken"
    /\ UNCHANGED <<handleVars, mutex, waitOn, waitKind, waitStatus, calledDrained, aborted>>

\* condition_variable::wait(lock) locks again before it returns.
WaitReacquire ==
    /\ ~aborted
    /\ pc = "w_woken"
    /\ CanLock(decay[waitOn].m_wake)
    /\ mutex' = [mutex EXCEPT ![decay[waitOn].m_wake] = "owner"]
    /\ pc' = IF waitKind \in {"plain", "timed"} THEN "w_ret" ELSE "w_test"
    /\ waitStatus' = IF waitKind \in {"timed", "timedpred"} THEN "no_timeout" ELSE waitStatus
    /\ UNCHANGED <<handleVars, waitOn, waitKind, calledDrained, aborted>>

\* The deadline of a timed wait elapses while the caller is parked.
WaitTimeout ==
    /\ ~aborted
    /\ pc = "w_parked"
    /\ waitKind \in {"timed", "timedpred"}
    /\ pc' = "w_timedout"
    /\ UNCHANGED <<handleVars, mutex, waitOn, waitKind, waitStatus, calledDrained, aborted>>

\* condition_variable::wait_until(lock, t) locks again and reports
\* cv_status::timeout.
WaitReacquireTimedOut ==
    /\ ~aborted
    /\ pc = "w_timedout"
    /\ CanLock(decay[waitOn].m_wake)
    /\ mutex' = [mutex EXCEPT ![decay[waitOn].m_wake] = "owner"]
    /\ pc' = IF waitKind = "timed" THEN "w_ret" ELSE "w_test"
    /\ waitStatus' = "timeout"
    /\ UNCHANGED <<handleVars, waitOn, waitKind, calledDrained, aborted>>

\* wait() and the timed waits return: the unique_lock unlocks.
WaitReturn ==
    /\ ~aborted
    /\ pc = "w_ret"
    /\ mutex' = [mutex EXCEPT ![decay[waitOn].m_wake] = "free"]
    /\ pc' = "idle"
    /\ waitOn' = NULL
    /\ waitKind' = "none"
    /\ waitStatus' = "none"
    /\ calledDrained' = FALSE
    /\ UNCHANGED <<handleVars, aborted>>

\* ------------------------------------------------------- specifications
OwnerWaitStep ==
    \/ WaitLock
    \/ WaitTest
    \/ WaitTestTimed
    \/ WaitPark
    \/ WaitReacquire
    \/ WaitReacquireTimedOut
    \/ WaitReturn

FinStep == \E k \in Pointee : FinReleaseData(k) \/ FinLock(k) \/ FinUnlock(k) \/ FinNotify(k)

Next ==
    \/ \E s \in Strong : StrongCtorPtr(s)
    \/ \E s \in Strong : StrongCtorNull(s)
    \/ \E s, r \in Strong : StrongMoveCtor(s, r)
    \/ \E s, r \in Strong : StrongMoveAssign(s, r)
    \/ \E s \in Strong : StrongResetPtr(s)
    \/ \E s \in Strong : StrongReset(s)
    \/ \E s \in Strong : StrongDtor(s)
    \/ \E s \in Strong : GetShared(s)
    \/ \E k \in Pointee : ObserverCopy(k)
    \/ \E k \in Pointee : ObserverRelease(k)
    \/ \E k \in Pointee : FinReleaseData(k)
    \/ \E k \in Pointee : FinLock(k)
    \/ \E k \in Pointee : FinUnlock(k)
    \/ \E k \in Pointee : FinNotify(k)
    \/ \E d \in Decay : DecayCtorDefault(d)
    \/ \E d \in Decay, s \in Strong : DecayCtorStrong(d, s)
    \/ \E d \in Decay : DecayReset(d)
    \/ \E d \in Decay : DecayDtor(d)
    \/ \E d, r \in Decay : DecayMoveAssign(d, r)
    \/ \E d \in Decay, s \in Strong : DecayAssignStrong(d, s)
    \/ \E d, r \in Decay : DecayMoveCtor(d, r)
    \/ \E d \in Decay : Wait(d)
    \/ \E d \in Decay : WaitPred(d)
    \/ \E d \in Decay : WaitFor(d)
    \/ \E d \in Decay : WaitForPred(d)
    \/ WaitLock
    \/ WaitTest
    \/ WaitTestTimed
    \/ WaitPark
    \/ SpuriousWake
    \/ WaitTimeout
    \/ WaitReacquire
    \/ WaitReacquireTimedOut
    \/ WaitReturn

Spec == Init /\ [][Next]_vars

\* Threads that can run do run: the owner inside a wait, and a thread
\* inside shared_deleter::operator(); the deadline of a timed wait elapses.
FairSpec == Spec /\ WF_vars(OwnerWaitStep) /\ WF_vars(FinStep) /\ WF_vars(WaitTimeout)

\* As FairSpec, and a thread blocked in the lock of shared_deleter gets the
\* mutex when it is released again and again.
LockFairSpec ==
    /\ Spec
    /\ WF_vars(OwnerWaitStep)
    /\ WF_vars(WaitTimeout)
    /\ \A k \in Pointee :
           /\ WF_vars(FinReleaseData(k) \/ FinUnlock(k) \/ FinNotify(k))
           /\ SF_vars(FinLock(k))

\* ---------------------------------------------------------------- claims
\* Some strong_ptr or decay_ptr holds pointee p through its m_data.
DirectHeld(p) ==
    \/ \E s \in Strong : strong[s].m_data = p
    \/ \E d \in Decay : decay[d].m_data = p

\* Some decay_ptr observes the m_shared control block k.
Converted(k) == \E d \in Decay : decay[d].m_decaying = k

\* C1: while at least one observer issued for a pointee is live, the
\* pointee's deleter has not run, whichever of the observers and the
\* owning handle is released first.
C1_ObserverKeepsPointee ==
    \A k \in Pointee : obs[k] >= 1 => deleterRuns[k] = 0

\* An observer outlives every handle of its pointee, which is not deleted.
C1_Witness ==
    \E k \in Pointee : obs[k] >= 1 /\ ~DirectHeld(k) /\ deleterRuns[k] = 0

\* C2: the deleter of an adopted pointee is never invoked twice; it has
\* been invoked exactly when both the direct claim of the owning handle and
\* the claim captured in shared_deleter have been released; and a
\* strong_ptr that gives up its pointee while no observer exists has the
\* deleter invoked by the end of that operation.
C2_DeletedExactlyOnce ==
    /\ [](\A p \in Pointee :
            /\ deleterRuns[p] <= 1
            /\ deleterRuns[p] = 1 <=> (p < nextP /\ ~DirectHeld(p) /\ ~tokData[p]))
    /\ [][\A p \in Pointee :
            ((\E s \in Strong : strong[s].m_data = p) /\ obs[p] = 0 /\ ~DirectHeld(p)')
                => deleterRuns'[p] = 1]_vars

\* The handle let go first and the thread running shared_deleter released
\* the last claim: the deleter has run once.
C2_Witness ==
    \E p \in Pointee : deleterRuns[p] = 1 /\ fin[p] = "released"

\* C3: a wait() called on a handle whose lineage has drained, the
\* broadcast of shared_deleter being over, does not park the caller on the
\* condition variable.
C3_WaitReturnsWhenDrained ==
    \A d \in Decay, k \in Pointee :
        ~(/\ pc = "w_parked"
          /\ waitKind = "plain"
          /\ calledDrained
          /\ waitOn = d
          /\ decay[d].m_decaying = k
          /\ fin[k] = "done")

\* C4: wait(pred) with the predicate decayed() returns only with the
\* predicate true, and returns eventually once the handle has decayed.
C4_WaitPredReturns ==
    /\ [][\A d \in Decay :
            (pc = "w_test" /\ waitOn = d /\ pc' = "idle") => decayed(d)']_vars
    /\ \A d \in Decay :
            (waitKind = "pred" /\ waitOn = d /\ decayed(d)) ~> (pc = "idle")

\* The owner is parked in wait(pred) and the last observer has just been
\* released: shared_deleter has not notified yet.
C4_Witness ==
    \E d \in Decay, k \in Pointee :
        /\ pc = "w_parked"
        /\ waitKind = "pred"
        /\ waitOn = d
        /\ decay[d].m_decaying = k
        /\ fin[k] = "zero"

\* C5 as claimed: while a decay_ptr object lives and an observer of the
\* lineage it took over is outstanding, decayed() is false.
C5_Original ==
    [][\A d \in Decay, k \in Pointee :
          (decay[d].alive /\ decay'[d].alive /\ decay[d].m_decaying = k /\ obs'[k] >= 1)
              => ~decayed(d)']_vars

\* C5 as amended: for a decay_ptr that holds its weak_ptr on a lineage
\* (neither reset nor moved from), decayed() is false exactly while an
\* observer of that lineage is outstanding.
C5_Amended ==
    \A d \in Decay, k \in Pointee :
        (decay[d].alive /\ decay[d].m_decaying = k) => (decayed(d) <=> obs[k] = 0)

\* The last observer has just been released by another thread.
C5_Witness ==
    \E d \in Decay, k \in Pointee :
        decay[d].alive /\ decay[d].m_decaying = k /\ decayed(d) /\ fin[k] = "zero"

\* C6: on a decay_ptr that observes a lineage, decayed() is true exactly
\* when the count is zero and shared_deleter has completed.
C6_DrainedIffFinalized ==
    \A d \in Decay, k \in Pointee :
        (decay[d].alive /\ decay[d].m_decaying = k)
            => (decayed(d) <=> (UseCount(k) = 0 /\ fin[k] = "done"))

\* C7: a decay_ptr that gives up its pointee after decayed() read true
\* leaves the deleter invoked; one that gives it up while decayed() reads
\* false leaves it to shared_deleter.
C7_ResetCompletesTeardown ==
    [][\A d \in Decay, p \in Pointee :
          (decay[d].alive /\ decay[d].m_data = p /\ ~DirectHeld(p)')
              => deleterRuns'[p] = (IF decayed(d) THEN 1 ELSE 0)]_vars

\* C8: the step that converts a strong_ptr into a decay_ptr does not invoke
\* the deleter and leaves the pointee in the decay_ptr; a pointee held by a
\* decay_ptr has not been deleted.
C8_ConversionKeepsPointee ==
    /\ [][\A d \in Decay, s \in Strong, k \in Pointee :
            (strong[s].m_shared = k /\ decay'[d].m_decaying = k)
                => (deleterRuns'[k] = 0 /\ decay'[d].m_data = k)]_vars
    /\ [](\A d \in Decay, p \in Pointee : decay[d].m_data = p => deleterRuns[p] = 0)

\* A conversion with no observer outstanding: shared_deleter has run and
\* the pointee is still held, undeleted.
C8_Witness ==
    \E d \in Decay, k \in Pointee :
        /\ decay[d].m_data = k
        /\ decay[d].m_decaying = k
        /\ obs[k] = 0
        /\ fin[k] = "done"
        /\ deleterRuns[k] = 0

\* C9 as claimed: once decayed() is true on a decay_ptr object it is true
\* after every later operation.
C9_Original ==
    [][\A d \in Decay :
          (decay[d].alive /\ decay'[d].alive /\ decayed(d)) => decayed(d)']_vars

\* C9 as amended: once decayed() is true on a decay_ptr object it stays
\* true across every operation that leaves it its weak_ptr or empties it.
C9_Amended ==
    [][\A d \in Decay :
          (/\ decay[d].alive
           /\ decay'[d].alive
           /\ decayed(d)
           /\ decay'[d].m_decaying \in {decay[d].m_decaying, NULL}) => decayed(d)']_vars

\* A decay_ptr that was reset after its lineage had drained.
C9_Witness ==
    \E d \in Decay, k \in Pointee :
        /\ decay[d].alive
        /\ decay[d].m_decaying = NULL
        /\ decay[d].m_wake = NULL
        /\ fin[k] = "done"
        /\ deleterRuns[k] = 1

\* C10 as claimed: after the conversion no step makes the count rise.
C10_Original ==
    [][\A k \in Pointee : Converted(k) => UseCount(k)' <= UseCount(k)]_vars

\* C10 as amended: after the conversion the count is raised by no operation
\* on a handle; it rises only by the copy of an outstanding observer, by
\* one, and so never from zero.
C10_Amended ==
    [][\A k \in Pointee :
          (Converted(k) /\ UseCount(k)' > UseCount(k))
              => (/\ obs[k] >= 1
                  /\ obs'[k] = obs[k] + 1
                  /\ strong' = strong
                  /\ decay' = decay)]_vars

\* An observer was copied after the conversion.
C10_Witness ==
    \E k \in Pointee : Converted(k) /\ obs[k] = MaxObs /\ UseCount(k) = MaxObs

\* The handles that hold pointee p through their m_data.
StrongHolders(p) == {s \in Strong : strong[s].m_data = p}
DecayHolders(p) == {d \in Decay : decay[d].m_data = p}

\* C11: at most one handle among all strong_ptr and decay_ptr objects
\* holds a given pointee through m_data; a move construction, move
\* assignment or conversion that hands the pointee to another handle leaves
\* the source alive and empty.
C11_SingleOwnerSlot ==
    /\ [](\A p \in Pointee :
            Cardinality(StrongHolders(p)) + Cardinality(DecayHolders(p)) <= 1)
    /\ [][\A p \in Pointee :
            /\ \A r \in StrongHolders(p) :
                   ((StrongHolders(p)' \cup DecayHolders(p)') # {} /\ r \notin StrongHolders(p)')
                       => (strong'[r].alive /\ strong'[r].m_data = NULL)
            /\ \A r \in DecayHolders(p) :
                   (DecayHolders(p)' # {} /\ r \notin DecayHolders(p)')
                       => (decay'[r].alive /\ decay'[r].m_data = NULL)]_vars

\* A pointee went from a strong_ptr to a decay_ptr and on to another
\* decay_ptr: both sources are alive and empty.
C11_Witness ==
    \E p \in Pointee, d, r \in Decay, s \in Strong :
        /\ decay[d].m_data = p
        /\ r # d
        /\ decay[r] = EmptyDecay
        /\ strong[s] = MovedStrong
        /\ nextP = p + 1

\* C12: a strong_ptr move (construction or assignment) hands the m_shared
\* claim to the destination with use_count unchanged, one above the number
\* of observers, and shared_deleter does not run; a conversion lowers
\* use_count by exactly one, to the number of observers.
C12_MoveKeepsCount ==
    [][\A k \in Pointee :
          /\ \A s, r \in Strong :
                 (s # r /\ strong[r].m_shared = k /\ strong'[s].m_shared = k)
                     => (/\ UseCount(k)' = UseCount(k)
                         /\ UseCount(k)' = obs'[k] + 1
                         /\ fin'[k] = "idle")
          /\ \A s \in Strong, d \in Decay :
                 (strong[s].m_shared = k /\ decay'[d].m_decaying = k)
                     => (/\ UseCount(k)' = UseCount(k) - 1
                         /\ UseCount(k)' = obs'[k])]_vars

\* A strong_ptr with the full number of observers was moved and its new
\* holder converted: the observers alone make up the count.
C12_Witness ==
    \E k \in Pointee, d \in Decay :
        /\ decay[d].m_decaying = k
        /\ obs[k] = MaxObs
        /\ UseCount(k) = MaxObs
        /\ \A s \in Strong : strong[s] = MovedStrong

\* Wake channel w is referenced by no handle and by no shared_deleter.
FreshWake(w) ==
    /\ \A h \in Strong : strong[h].m_wake # w
    /\ \A h \in Decay : decay[h].m_wake # w
    /\ \A k \in Pointee : tokWake[k] # w

\* Control block k has never been created.
FreshToken(k) == k >= nextP /\ UseCount(k) = 0 /\ fin[k] = "idle" /\ ~tokData[k]

\* Step of a live strong_ptr s that gives it a newly made wake channel:
\* one of the reset and assignment forms.
IsResetStep(s) ==
    /\ strong[s].alive
    /\ strong'[s].alive
    /\ nextWake' = nextWake + 1
    /\ strong'[s].m_wake = nextWake

\* Step of a live strong_ptr s that adopts the new pointee n: reset(ptr),
\* reset(ptr, deleter), operator=(U*), operator=(unique_ptr&&).
IsAdoptStep(s, n) ==
    /\ strong[s].alive
    /\ n = nextP
    /\ nextP' = nextP + 1
    /\ strong'[s].m_data = n

\* The observers taken before the step keep counting on the old control
\* block only, and keep the old pointee undeleted.
OldObserversKept(s) ==
    /\ obs' = obs
    /\ \A k \in Pointee :
           strong[s].m_shared = k
               => (/\ UseCount(k)' = obs[k]
                   /\ obs[k] >= 1 => (deleterRuns'[k] = 0 /\ fin'[k] = "idle"))

\* C13 as claimed: every reset form leaves the strong_ptr with a new
\* control block and a new wake channel.
C13_Original ==
    [][\A s \in Strong :
          IsResetStep(s)
              => (/\ strong'[s].m_shared # NULL
                  /\ strong'[s].m_shared # strong[s].m_shared
                  /\ strong'[s].m_wake # strong[s].m_wake
                  /\ OldObserversKept(s))]_vars

\* C13 as amended: the forms that adopt a pointee leave the strong_ptr
\* with a newly made control block, counted once, that captured the newly
\* made wake channel; reset() and reset(nullptr) leave it a newly made wake
\* channel and no control block.  In both cases the observers taken before
\* count on the old control block only and keep the old pointee undeleted.
C13_Amended ==
    [][\A s \in Strong :
          /\ \A n \in Pointee :
                 IsAdoptStep(s, n)
                     => (/\ FreshToken(n)
                         /\ strong'[s].m_shared = n
                         /\ UseCount(n)' = 1
                         /\ FreshWake(nextWake)
                         /\ strong'[s].m_wake = nextWake
                         /\ tokWake'[n] = nextWake
                         /\ OldObserversKept(s))
          /\ (IsResetStep(s) /\ nextP' = nextP)
                 => (/\ strong'[s].m_shared = NULL
                     /\ strong'[s].m_data = NULL
                     /\ FreshWake(nextWake)
                     /\ OldObserversKept(s))]_vars

\* A strong_ptr was given a second pointee while an observer of the first
\* was outstanding: the first pointee is held by no handle and undeleted,
\* the new control block is counted once.
C13_Witness ==
    \E s \in Strong :
        /\ strong[s].m_shared = 2
        /\ strong[s].m_data = 2
        /\ strong[s].m_wake = 2
        /\ UseCount(2) = 1
        /\ obs[1] >= 1
        /\ ~DirectHeld(1)
        /\ deleterRuns[1] = 0

\* How far shared_deleter::operator() of a control block has got.
FinRank(f) ==
    CASE f = "idle" -> 0
      [] f = "zero" -> 1
      [] f = "released" -> 2
      [] f = "locked" -> 3
      [] f = "unlocked" -> 4
      [] f = "done" -> 5

\* C14: for every m_shared control block, shared_deleter::operator() is
\* entered in the step that takes use_count to zero and at no other time;
\* it never starts over; it releases its captured m_data exactly once and
\* calls notify_all exactly once, as its last statement.
C14_FinalizeOnce ==
    /\ [](\A k \in Pointee :
            /\ (fin[k] # "idle") <=> (k < nextP /\ UseCount(k) = 0)
            /\ tokData[k] <=> (k < nextP /\ FinRank(fin[k]) <= 1))
    /\ [][\A k \in Pointee :
            /\ FinRank(fin'[k]) >= FinRank(fin[k])
            /\ (fin[k] = "idle" /\ fin'[k] # "idle") => fin'[k] \in {"zero", "done"}
            /\ (fin[k] # "idle" /\ fin'[k] # "done") => FinRank(fin'[k]) <= FinRank(fin[k]) + 1
            /\ (tokData[k] /\ ~tokData'[k]) => fin'[k] \in {"released", "done"}
            /\ (~tokData[k] /\ tokData'[k]) => (k = nextP /\ fin[k] = "idle")]_vars

\* One control block was finalized inside an operation of the owner while
\* the thread that released the last observer of another is about to call
\* notify_all.
C14_Witness ==
    \E k, j \in Pointee :
        /\ k # j
        /\ fin[k] = "unlocked"
        /\ ~tokData[k]
        /\ fin[j] = "done"
        /\ obs[j] = 0

\* C15: a timed wait that is about to return reports "condition
\* satisfied" (cv_status::no_timeout, or true from the predicate forms)
\* only if the handle has decayed; on a handle whose observers are never
\* released it reports "deadline elapsed".
C15_TimedWaitOutcome ==
    (pc = "w_ret" /\ waitKind \in {"timed", "timedpred"})
        => (waitStatus \in {"no_timeout", "true"} => decayed(waitOn))

\* A decay_ptr without a control block to observe: default-constructed,
\* moved-from, reset, or converted from a strong_ptr that had none.
TokenLess(d) == decay[d].alive /\ decay[d].m_decaying = NULL

\* C16: there is no token-less decay_ptr on which decayed() returns true
\* while wait() fails its assertion or parks the caller.
C16_TokenLessConvention ==
    /\ \A d \in Decay :
           (OwnerIdle /\ TokenLess(d) /\ decayed(d)) => ~ENABLED (Wait(d) /\ aborted')
    /\ \A d \in Decay :
           (pc = "w_parked" /\ waitKind = "plain" /\ waitOn = d /\ TokenLess(d))
               => ~calledDrained

\* A strong_ptr that has been moved from or converted: its m_wake was
\* moved out of or reset.
Consumed(s) == strong[s].alive /\ strong[s].m_wake = NULL

\* C17: the conversion of a consumed strong_ptr, by the converting
\* constructor or by the converting move-assignment, cannot complete
\* without an assertion failure.
C17_SecondConversionAsserts ==
    \A s \in Strong, d \in Decay :
        (OwnerIdle /\ Consumed(s))
            => /\ ~ENABLED (DecayCtorStrong(d, s) /\ ~aborted')
               /\ ~ENABLED (DecayAssignStrong(d, s) /\ ~aborted')

\* A thread is inside shared_deleter::operator() of control block k.
Finalizing(k) == FinRank(fin[k]) \in 1..4

C19_CapturedWakeIsHandleWake ==
    /\ [](\A k \in Pointee :
            /\ \A s \in Strong :
                   strong[s].m_shared = k => (tokWake[k] # NULL /\ tokWake[k] = strong[s].m_wake)
            /\ \A d \in Decay :
                   decay[d].m_decaying = k => (tokWake[k] # NULL /\ tokWake[k] = decay[d].m_wake))
    /\ [][\A k \in Pointee, d \in Decay :
            (/\ fin[k] = "unlocked"
             /\ fin'[k] = "done"
             /\ pc = "w_parked"
             /\ waitOn = d
             /\ decay[d].m_decaying = k) => pc' = "w_woken"]_vars

\* The owner, parked in wait() on a decay_ptr that was moved after the
\* conversion, has been woken by the notify_all of its lineage.
C19_Witness ==
    \E k \in Pointee, d, r \in Decay :
        /\ pc = "w_woken"
        /\ waitKind = "plain"
        /\ ~calledDrained
        /\ waitOn = d
        /\ decay[d].m_decaying = k
        /\ fin[k] = "done"
        /\ r # d
        /\ decay[r] = EmptyDecay

\* The m_shared control block k, with the shared_deleter it stores, exists.
BlockExists(k) == k < nextP /\ (UseCount(k) > 0 \/ Finalizing(k) \/ Converted(k))

\* use_count() of wake channel w: the handles' m_wake and the copies
\* captured in existing shared_deleters.
WakeUseCount(w) ==
    Cardinality({s \in Strong : strong[s].m_wake = w})
    + Cardinality({d \in Decay : decay[d].m_wake = w})
    + Cardinality({k \in Pointee : BlockExists(k) /\ tokWake[k] = w})

\* C20: every control block made by a constructor or a reset form
\* captured a wake channel; while shared_deleter runs that channel is
\* allocated, also when no handle refers to it any more; and no assertion
\* failure comes from shared_deleter.
C20_WakeAliveAtFinalize ==
    /\ [](\A k \in Pointee : k < nextP => tokWake[k] \in Wake)
    /\ [](\A k \in Pointee : Finalizing(k) => WakeUseCount(tokWake[k]) >= 1)
    /\ [][(~aborted /\ aborted')
            => \A k \in Pointee : ~(fin[k] = "zero" /\ tokWake[k] = NULL)]_vars

\* Every strong_ptr and decay_ptr has been destroyed and the thread that
\* released the last observer holds the mutex of the wake channel.
C20_Witness ==
    \E k \in Pointee :
        /\ fin[k] = "locked"
        /\ mutex[tokWake[k]] = "fin"
        /\ \A s \in Strong : ~strong[s].alive
        /\ \A d \in Decay : ~decay[d].alive
        /\ WakeUseCount(tokWake[k]) = 1

============================================================================
